---- MODULE Spec2Model ----
(***************************************************************************)
(* Pairings from scratch: prime field F13, its polynomial extensions,      *)
(* the polynomial ring, the affine group law of TinyJJ and the Tate        *)
(* pairing, as a state machine whose actions are calls of the library's    *)
(* operations.  Values:                                                    *)
(*   - an i64 or an F13 element is an integer (the stored value);          *)
(*   - a Polynomial is the sequence of its stored coefficients, index 1    *)
(*     holding the coefficient of x^0;                                     *)
(*   - an element of an extension field is the stored Polynomial<F13>;     *)
(*   - an AffinePoint is <<>> (Infinity) or <<x, y>> (XY(x, y)).           *)
(***************************************************************************)
EXTENDS Integers, Sequences, FiniteSets, TLC

VARIABLES pc, frame, quotient, remainder, miller, held

vars == <<pc, frame, quotient, remainder, miller, held>>

(***************************************************************************)
(* Bounds of the model.                                                    *)
(***************************************************************************)
\* FieldElement::<Mod13>::new is called on the integers -MaxRaw .. MaxRaw
MaxRaw == 14

\* coefficient lists of the Polynomial constructors and left operands of
\* the Polynomial operators: length 0 .. MaxLen
MaxLen == 2

\* their coefficients: the integers -1 .. MaxCoeff, or the field elements
\* new(0) .. new(MaxCoeff) and new(-MaxRaw)
MaxCoeff == 1

\* right operands of the Polynomial operators, the divisors of div_mod
\* among them: length 0 .. MaxDivLen
MaxDivLen == 2

\* scalars of the scalar multiplication of a point: 0 .. MaxScalar
MaxScalar == 6

\* coefficients of the lists the extension-field elements are built from:
\* 0 .. MaxExtCoeff
MaxExtCoeff == 1

\* exponents of pow: 0 .. MaxExp, the modulus of F13 among them
MaxExp == 13

\* second operands of the pairing: the multiples q * 1 .. q * MaxMultiple of
\* the point q of the pairing tests
MaxMultiple == 5

\* first operands of the pairing: the points with coordinates in the prime
\* field and x in 0 .. MaxX
MaxX == 8

\* the largest absolute value of an integer coefficient handed to div_mod
MaxDivCoeff == 2

(***************************************************************************)
(* i64 arithmetic: Rust's / and % truncate towards zero.                   *)
(***************************************************************************)
\* Rust evaluates the operands of a call before the call, and a let binding
\* where it stands.  Assigned(v) is TRUE; testing it evaluates v at that
\* point, and not inside the expression that uses v at last
Assigned(v) == v = v

Abs(a) == IF a < 0 THEN -a ELSE a

i64_div(a, b) ==
    IF (a < 0) = (b < 0) THEN Abs(a) \div Abs(b) ELSE -(Abs(a) \div Abs(b))

i64_rem(a, b) == a - b * i64_div(a, b)

(***************************************************************************)
(* Mod13: the prime field, FiniteField with T = i64.                       *)
(***************************************************************************)
Mod13_modulus == 13

Mod13_zero == 0

Mod13_one == 1

Mod13_reduce(value) == i64_rem(Mod13_modulus + value, Mod13_modulus)

\* the loop of the default FiniteField::inverse (extended Euclid on i64)
RECURSIVE Mod13_xgcd(_, _, _, _)
Mod13_xgcd(r0, r1, t0, t1) ==
    IF r1 # Mod13_zero
    THEN LET quot == i64_div(r0, r1)
         IN  Mod13_xgcd(r1, r0 - quot * r1, t1, t0 - quot * t1)
    ELSE t0

Mod13_inverse(value) ==
    Mod13_reduce(Mod13_xgcd(Mod13_modulus, value, Mod13_zero, Mod13_one))

(***************************************************************************)
(* F13 = FieldElement<Mod13>.                                              *)
(***************************************************************************)
F13_new(value) == Mod13_reduce(value)

F13_add(a, b) == F13_new(a + b)

F13_neg(a) == F13_new(Mod13_modulus - a)

F13_sub(a, b) == F13_add(a, F13_neg(b))

F13_mul(a, b) == F13_new(a * b)

F13_inverse(a) == F13_new(Mod13_inverse(a))

F13_div(a, b) == F13_mul(a, F13_inverse(b))

(***************************************************************************)
(* Coefficient: the ring operations of a Polynomial's coefficient type C,  *)
(* "i64" (plain integers) or "F13" (field elements).  C::default() is 0    *)
(* for both.  i64 division by zero panics: callers test coeff_div_panics.  *)
(***************************************************************************)
Coefficients == {"i64", "F13"}

coeff_default == 0

coeff_add(C, a, b) == IF C = "F13" THEN F13_add(a, b) ELSE a + b

coeff_neg(C, a) == IF C = "F13" THEN F13_neg(a) ELSE -a

coeff_mul(C, a, b) == IF C = "F13" THEN F13_mul(a, b) ELSE a * b

coeff_div_panics(C, a, b) == C = "i64" /\ b = 0

coeff_div(C, a, b) == IF C = "F13" THEN F13_div(a, b) ELSE i64_div(a, b)

(***************************************************************************)
(* Polynomial<C>.                                                          *)
(***************************************************************************)
Max(a, b) == IF a >= b THEN a ELSE b

Min(a, b) == IF a <= b THEN a ELSE b

\* iter().rposition(|c| c != default) from index i downwards; 0 when None,
\* else the 1-based position
RECURSIVE rposition(_, _)
rposition(coeffs, i) ==
    IF i = 0 THEN 0
    ELSE IF coeffs[i] # coeff_default THEN i
    ELSE rposition(coeffs, i - 1)

\* rposition(..).unwrap_or(0), as a 0-based index
rposition_or_0(coeffs) == Max(rposition(coeffs, Len(coeffs)) - 1, 0)

\* Polynomial::new panics on an empty vector (the slice ..=0 is out of range)
Polynomial_new_panics(coeffs) == Len(coeffs) = 0

Polynomial_new(coeffs) ==
    IF Assigned(coeffs) THEN SubSeq(coeffs, 1, rposition_or_0(coeffs) + 1)
    ELSE coeffs

from_coefficients(coeffs) == Polynomial_new(coeffs)

\* FromIterator: Self(iter.into_iter().collect()), the items as they come
from_iter(items) == items

\* From<Vec<M::T>> for Polynomial<FieldElement<M>>, with M = Mod13
from_vec(value) == from_iter([i \in 1 .. Len(value) |-> F13_new(value[i])])

degree(p) == rposition_or_0(p)

\* coefficients()[degree()] of an empty coefficient list
leading_coefficient_panics(p) == Len(p) = 0

leading_coefficient(p) == p[degree(p) + 1]

is_zero(p) == \A i \in 1 .. Len(p) : p[i] = coeff_default

\* PartialEq for Polynomial: equal degrees, then the zipped coefficients
poly_eq(a, b) ==
    /\ degree(a) = degree(b)
    /\ \A i \in 1 .. Min(Len(a), Len(b)) : a[i] = b[i]

\* coeffs[i] of Add is written for every stored coefficient of both operands
poly_add_panics(a, b) ==
    \/ Len(a) > Max(degree(a), degree(b)) + 1
    \/ Len(b) > Max(degree(a), degree(b)) + 1

\* the vector of Add: vec![default; len], then self copied in, then other
\* added to it
add_coeffs(C, a, b, len) ==
    [i \in 1 .. len |->
        IF i <= Len(b)
        THEN coeff_add(C, IF i <= Len(a) THEN a[i] ELSE coeff_default, b[i])
        ELSE IF i <= Len(a) THEN a[i] ELSE coeff_default]

poly_add(C, a, b) ==
    IF Assigned(a) /\ Assigned(b)
    THEN Polynomial_new(add_coeffs(C, a, b, Max(degree(a), degree(b)) + 1))
    ELSE a

\* the negated coefficients are collected and handed to Polynomial::new
poly_neg_panics(a) == Polynomial_new_panics(a)

poly_neg(C, a) ==
    IF Assigned(a)
    THEN Polynomial_new([i \in 1 .. Len(a) |-> coeff_neg(C, a[i])])
    ELSE a

poly_sub_panics(C, a, b) ==
    poly_neg_panics(b) \/ poly_add_panics(a, poly_neg(C, b))

poly_sub(C, a, b) == poly_add(C, a, poly_neg(C, b))

\* coeffs[k] of Mul after the rows i .. Len(a) of the double loop were added
\* to acc (k, i 1-based: row i adds a[i] * b[k - i + 1])
RECURSIVE mul_coeff(_, _, _, _, _, _)
mul_coeff(C, a, b, k, i, acc) ==
    IF i > Len(a) \/ i > k \/ ~Assigned(acc) THEN acc
    ELSE IF a[i] # coeff_default /\ k - i + 1 <= Len(b)
    THEN mul_coeff(C, a, b, k, i + 1,
                   coeff_add(C, acc, coeff_mul(C, a[i], b[k - i + 1])))
    ELSE mul_coeff(C, a, b, k, i + 1, acc)

\* coeffs[i + j] of Mul is written for every non-zero a[i] and every b[j]
poly_mul_panics(a, b) ==
    \E i \in 1 .. Len(a) : \E j \in 1 .. Len(b) :
        a[i] # coeff_default /\ (i - 1) + (j - 1) >= degree(a) + degree(b) + 1

poly_mul(C, a, b) ==
    IF Assigned(a) /\ Assigned(b)
    THEN Polynomial_new([k \in 1 .. degree(a) + degree(b) + 1 |->
             mul_coeff(C, a, b, k, 1, coeff_default)])
    ELSE a

poly_scalar_mul_panics(a) == Polynomial_new_panics(a)

\* Mul<T> for Polynomial<T>
poly_scalar_mul(C, a, scalar) ==
    IF Assigned(a) /\ Assigned(scalar)
    THEN Polynomial_new([i \in 1 .. Len(a) |-> coeff_mul(C, a[i], scalar)])
    ELSE a

(***************************************************************************)
(* Polynomial::div_mod: the loop condition, the panics of an iteration     *)
(* and the iteration.                                                      *)
(***************************************************************************)
div_mod_init == Polynomial_new(<<coeff_default>>)

\* the loop condition reads the leading coefficient of the remainder after
\* the comparison of the degrees (&&)
div_mod_cond_panics(rem, divisor) ==
    /\ degree(rem) >= degree(divisor)
    /\ leading_coefficient_panics(rem)

\* the loop left one iteration early: > in place of >=
div_mod_cond_strict(rem, divisor) ==
    /\ degree(rem) > degree(divisor)
    /\ leading_coefficient(rem) # coeff_default

div_mod_cond(rem, divisor) ==
    /\ degree(rem) >= degree(divisor)
    /\ leading_coefficient(rem) # coeff_default

\* vec![default; degree + 1] with coeffs[degree] = leading_coeff
term_coeffs(deg, leading_coeff) ==
    [i \in 1 .. deg + 1 |->
        IF i = deg + 1 THEN leading_coeff ELSE coeff_default]

div_mod_term(C, rem, divisor) ==
    Polynomial_new(term_coeffs(degree(rem) - degree(divisor),
        coeff_div(C, leading_coefficient(rem),
                  leading_coefficient(divisor))))

\* quotient + term and remainder - term * divisor panic
div_mod_assign_panics(C, quot, rem, divisor, term) ==
    IF poly_add_panics(quot, term) THEN TRUE
    ELSE IF poly_mul_panics(term, divisor) THEN TRUE
    ELSE \E product \in {poly_mul(C, term, divisor)} :
             poly_sub_panics(C, rem, product)

\* an iteration panics: in a leading coefficient, in the division of the
\* leading coefficients, or in the +, * and - on the polynomials
div_mod_panics(C, quot, rem, divisor) ==
    IF leading_coefficient_panics(divisor) THEN TRUE
    ELSE IF coeff_div_panics(C, leading_coefficient(rem),
                             leading_coefficient(divisor)) THEN TRUE
    ELSE \E term \in {div_mod_term(C, rem, divisor)} :
             div_mod_assign_panics(C, quot, rem, divisor, term)

\* quotient = quotient + term; remainder = remainder - term * divisor
div_mod_assign(C, quot, rem, divisor, term) ==
    IF Assigned(term)
    THEN <<poly_add(C, quot, term),
           CHOOSE r \in {poly_sub(C, rem, product) :
                            product \in {poly_mul(C, term, divisor)}} : TRUE>>
    ELSE <<quot, rem>>

\* <<quotient, remainder>> after one iteration (term is computed once)
div_mod_body(C, quot, rem, divisor) ==
    CHOOSE qr \in {div_mod_assign(C, quot, rem, divisor, term) :
                      term \in {div_mod_term(C, rem, divisor)}} : TRUE

\* div_mod run to its end (F13 coefficients and a non-zero divisor, where
\* each iteration lowers the degree of the remainder); qr is
\* <<quotient, remainder>>
RECURSIVE div_mod_loop(_, _, _)
div_mod_loop(C, qr, divisor) ==
    IF Assigned(qr) /\ div_mod_cond(qr[2], divisor)
    THEN div_mod_loop(C, div_mod_body(C, qr[1], qr[2], divisor), divisor)
    ELSE qr

div_mod(C, self, divisor) ==
    IF Assigned(self) /\ Assigned(divisor)
    THEN div_mod_loop(C, <<div_mod_init, self>>, divisor)
    ELSE <<self, self>>

poly_div(C, a, b) == div_mod(C, a, b)[1]

poly_rem(C, a, b) == div_mod(C, a, b)[2]

(***************************************************************************)
(* Mod13_2 and Mod13_4: the extension fields F13[x]/(x^2+2) and            *)
(* F13[x]/(x^4+2), FiniteField with T = Polynomial<F13>.                   *)
(***************************************************************************)
ExtensionFields == {"Mod13_2", "Mod13_4"}

Fields == {"Mod13"} \cup ExtensionFields

ext_modulus(M) ==
    IF M = "Mod13_2"
    THEN Polynomial_new(<<F13_new(2), F13_new(0), F13_new(1)>>)
    ELSE Polynomial_new(<<F13_new(2), F13_new(0), F13_new(0), F13_new(0),
                          F13_new(1)>>)

ext_zero == Polynomial_new(<<F13_new(0)>>)

ext_one == Polynomial_new(<<F13_new(1)>>)

\* the default FiniteField::reduce on polynomials
ext_reduce(M, value) ==
    poly_rem("F13", poly_add("F13", ext_modulus(M), value), ext_modulus(M))

\* the loop of the polynomial extended Euclid, <<r0, t0>> at its end; rt is
\* <<r0, r1, t0, t1>>
RECURSIVE ext_xgcd(_)

\* the assignments of an iteration, quot being r0 / r1
ext_xgcd_assign(rt, quot) ==
    IF Assigned(quot)
    THEN ext_xgcd(<<rt[2],
                    poly_sub("F13", rt[1], poly_mul("F13", quot, rt[2])),
                    rt[4],
                    poly_sub("F13", rt[3], poly_mul("F13", quot, rt[4]))>>)
    ELSE rt

ext_xgcd(rt) ==
    IF Assigned(rt) /\ ~is_zero(rt[2])
    THEN ext_xgcd_assign(rt, poly_div("F13", rt[1], rt[2]))
    ELSE <<rt[1], rt[3]>>

\* t0 * lead_r0_inv, with lead_r0_inv the inverse of the leading coefficient
\* of r0
ext_normalise(rt) ==
    IF Assigned(rt)
    THEN poly_scalar_mul("F13", rt[2],
                         F13_inverse(leading_coefficient(rt[1])))
    ELSE rt

ext_inverse(M, value) ==
    ext_normalise(ext_xgcd(<<ext_modulus(M), value, ext_zero, ext_one>>))

(***************************************************************************)
(* FieldElement<M> for M in Fields.                                        *)
(***************************************************************************)
M_modulus(M) == IF M = "Mod13" THEN Mod13_modulus ELSE ext_modulus(M)

M_zero(M) == IF M = "Mod13" THEN Mod13_zero ELSE ext_zero

M_one(M) == IF M = "Mod13" THEN Mod13_one ELSE ext_one

M_reduce(M, value) ==
    IF M = "Mod13" THEN Mod13_reduce(value) ELSE ext_reduce(M, value)

M_inverse(M, value) ==
    IF M = "Mod13" THEN Mod13_inverse(value) ELSE ext_inverse(M, value)

\* == on M::T, which is == on FieldElement<M> (derived PartialEq)
T_eq(M, a, b) == IF M = "Mod13" THEN a = b ELSE poly_eq(a, b)

T_add(M, a, b) == IF M = "Mod13" THEN a + b ELSE poly_add("F13", a, b)

T_sub(M, a, b) == IF M = "Mod13" THEN a - b ELSE poly_sub("F13", a, b)

T_mul(M, a, b) == IF M = "Mod13" THEN a * b ELSE poly_mul("F13", a, b)

FieldElement_new(M, value) ==
    IF Assigned(value) THEN M_reduce(M, value) ELSE value

FieldElement_zero(M) == FieldElement_new(M, M_zero(M))

FieldElement_one(M) == FieldElement_new(M, M_one(M))

FieldElement_is_zero(M, a) == T_eq(M, M_zero(M), a)

FieldElement_inverse(M, a) ==
    IF Assigned(a) THEN FieldElement_new(M, M_inverse(M, a)) ELSE a

FieldElement_add(M, a, b) ==
    IF Assigned(a) /\ Assigned(b) THEN FieldElement_new(M, T_add(M, a, b))
    ELSE a

FieldElement_neg(M, a) ==
    IF Assigned(a) THEN FieldElement_new(M, T_sub(M, M_modulus(M), a))
    ELSE a

FieldElement_sub(M, a, b) ==
    IF Assigned(a) /\ Assigned(b)
    THEN FieldElement_add(M, a, FieldElement_neg(M, b))
    ELSE a

FieldElement_mul(M, a, b) ==
    IF Assigned(a) /\ Assigned(b) THEN FieldElement_new(M, T_mul(M, a, b))
    ELSE a

FieldElement_div(M, a, b) ==
    IF Assigned(a) /\ Assigned(b)
    THEN FieldElement_mul(M, a, FieldElement_inverse(M, b))
    ELSE a

\* NonExtendedField::to_bits of the exponent field: the bits of s, the most
\* significant first
RECURSIVE to_bits(_)
to_bits(s) == IF s = 0 THEN <<>> ELSE Append(to_bits(s \div 2), s % 2 = 1)

\* acc = acc * acc; if bit { acc = acc * base }
pow_body(M, acc, base, bit) ==
    IF bit THEN FieldElement_mul(M, FieldElement_mul(M, acc, acc), base)
    ELSE FieldElement_mul(M, acc, acc)

\* the for loop of pow from bit i on
RECURSIVE pow_loop(_, _, _, _, _)
pow_loop(M, acc, base, bits, i) ==
    IF i > Len(bits) \/ ~Assigned(acc) THEN acc
    ELSE pow_loop(M, pow_body(M, acc, base, bits[i]), base, bits, i + 1)

FieldElement_pow(M, a, exp) ==
    IF exp = Mod13_zero THEN FieldElement_one(M)
    ELSE pow_loop(M, FieldElement_one(M), a, to_bits(exp), 1)

(***************************************************************************)
(* The calls of the curve and pairing code.  call(f, a) is the function f  *)
(* of the library applied to the operands a, which are evaluated before    *)
(* the call; it is defined after the functions it names.  The operators    *)
(* below are the calls written in elliptic_curve.rs and pairing.rs, on     *)
(* elements of the base field of TinyJJ and on its points.                 *)
(***************************************************************************)
RECURSIVE call(_, _)

BaseField == "Mod13_4"

fe_new(value) == call("FieldElement::new", <<BaseField, value>>)

fe_one == call("FieldElement::one", <<BaseField>>)

fe_is_zero(a) == FieldElement_is_zero(BaseField, a)

fe_eq(a, b) == T_eq(BaseField, a, b)

fe_add(a, b) == call("FieldElement::add", <<BaseField, a, b>>)

fe_neg(a) == call("FieldElement::neg", <<BaseField, a>>)

fe_sub(a, b) == call("FieldElement::sub", <<BaseField, a, b>>)

fe_mul(a, b) == call("FieldElement::mul", <<BaseField, a, b>>)

fe_div(a, b) == call("FieldElement::div", <<BaseField, a, b>>)

fe_pow(a, exp) == call("FieldElement::pow", <<BaseField, a, exp>>)

pt_new_xy(x, y) == call("AffinePoint::new_xy", <<x, y>>)

pt_double(p) == call("AffinePoint::double", <<p>>)

pt_neg(p) == call("AffinePoint::neg", <<p>>)

pt_add(p, q) == call("AffinePoint::add", <<p, q>>)

pt_mul(p, scalar) == call("AffinePoint::mul", <<p, scalar>>)

pt_trace_map(p) == call("AffinePoint::trace_map", <<p>>)

(***************************************************************************)
(* TinyJJ: y^2 = x^3 + 8x + 8 over BaseField = Mod13_4, with               *)
(* ScalarField = Mod13.                                                    *)
(***************************************************************************)
\* Polynomial::from(vec![..]).into(): From<Vec<i64>>, then FieldElement::new
base_element(value) == fe_new(from_vec(value))

TinyJJ_a == base_element(<<8>>)

TinyJJ_b == base_element(<<8>>)

TinyJJ_generator == pt_new_xy(base_element(<<8, 2, 12, 5>>),
                              base_element(<<0, 1, 5>>))

TinyJJ_embedding_degree == 4

TinyJJ_order == 28800

TinyJJ_r == 5

(***************************************************************************)
(* AffinePoint<TinyJJ>.                                                    *)
(***************************************************************************)
Infinity == <<>>

is_inf(p) == p = Infinity

\* an equality that looks at the x coordinate only
point_eq_x(p, q) ==
    IF is_inf(p) \/ is_inf(q) THEN is_inf(p) /\ is_inf(q)
    ELSE fe_eq(p[1], q[1])

\* the derived PartialEq of the enum
point_eq(p, q) ==
    IF is_inf(p) \/ is_inf(q) THEN is_inf(p) /\ is_inf(q)
    ELSE fe_eq(p[1], q[1]) /\ fe_eq(p[2], q[2])

\* the equation without its constant term: y^2 = x^3 + a*x
is_on_curve_without_b(x, y) ==
    fe_eq(fe_mul(y, y), fe_add(fe_mul(fe_mul(x, x), x), fe_mul(TinyJJ_a, x)))

is_on_curve(x, y) ==
    fe_eq(fe_mul(y, y),
          fe_add(fe_add(fe_mul(fe_mul(x, x), x), fe_mul(TinyJJ_a, x)),
                 TinyJJ_b))

new_xy(x, y) == IF is_on_curve(x, y) THEN <<x, y>> ELSE Infinity

\* (3*x^2 + a) / 2*y
tangent_slope(x, y) ==
    LET x_pow_2 == fe_mul(x, x)
    IN  fe_div(fe_add(fe_add(fe_add(x_pow_2, x_pow_2), x_pow_2), TinyJJ_a),
               fe_add(y, y))

chord_slope(x1, y1, x2, y2) == fe_div(fe_sub(y2, y1), fe_sub(x2, x1))

point_double(p) ==
    IF is_inf(p) THEN Infinity
    ELSE IF fe_is_zero(p[2]) THEN Infinity
    ELSE LET x == p[1]
             y == p[2]
             m == tangent_slope(x, y)
             new_x == fe_sub(fe_sub(fe_mul(m, m), x), x)
             new_y == fe_sub(fe_mul(m, fe_sub(x, new_x)), y)
         IN  pt_new_xy(new_x, new_y)

\* a negation that negates x, not y
point_neg_x(p) ==
    IF is_inf(p) THEN Infinity ELSE <<fe_neg(p[1]), p[2]>>

point_neg(p) ==
    IF is_inf(p) THEN Infinity ELSE <<p[1], fe_neg(p[2])>>

point_add(self, other) ==
    IF point_eq(self, other) THEN pt_double(self)
    ELSE IF point_eq(self, pt_neg(other)) THEN Infinity
    ELSE IF is_inf(self) THEN other
    ELSE IF is_inf(other) THEN pt_new_xy(self[1], self[2])
    ELSE LET x1 == self[1]
             y1 == self[2]
             x2 == other[1]
             y2 == other[2]
             m == chord_slope(x1, y1, x2, y2)
             x == fe_sub(fe_sub(fe_mul(m, m), x1), x2)
             y == fe_add(y1, fe_mul(m, fe_sub(x, x1)))
         IN  pt_new_xy(x, fe_neg(y))

\* i64::BITS - s.leading_zeros(), for s >= 0
RECURSIVE bit_length(_)
bit_length(s) == IF s = 0 THEN 0 ELSE 1 + bit_length(s \div 2)

RECURSIVE i64_pow(_, _)
i64_pow(b, e) == IF e = 0 THEN 1 ELSE b * i64_pow(b, e - 1)

\* Mod13's to_bits_be: res[i] = s >> i & 1, so the bit of weight 2^i sits at
\* index i (the least significant bit first)
to_bits_be(s) ==
    [i \in 1 .. bit_length(s) |-> (s \div i64_pow(2, i - 1)) % 2]

\* the items of v.iter().rev(): the leading bit is not skipped
rev_skip_0(v) == [i \in 1 .. Len(v) |-> v[Len(v) + 1 - i]]

\* the items of v.iter().rev().skip(1)
rev_skip_1(v) == [i \in 1 .. Max(Len(v) - 1, 0) |-> v[Len(v) - i]]

\* the items of v.iter().skip(1)
skip_1(v) == SubSeq(v, 2, Len(v))

\* point = point.double() alone: the bit is not looked at
point_mul_body_double(point, base, bit) == pt_double(point)

\* point = point.double(); if *bit == 1 { point = point + XY(x, y) }
point_mul_body(point, base, bit) ==
    IF bit = 1 THEN pt_add(pt_double(point), base) ELSE pt_double(point)

RECURSIVE point_mul_loop(_, _, _, _)
point_mul_loop(point, base, bits, i) ==
    IF i > Len(bits) \/ ~Assigned(point) THEN point
    ELSE point_mul_loop(point_mul_body(point, base, bits[i]), base, bits,
                        i + 1)

point_mul(self, scalar) ==
    IF is_inf(self) THEN Infinity
    ELSE point_mul_loop(self, self, rev_skip_1(to_bits_be(scalar)), 1)

\* the loop body adding nothing
trace_map_body_skip(point, x, y, power) == point

\* point = point + new_xy(x.pow(power), y.pow(power)), power = modulus^i
trace_map_body(point, x, y, power) ==
    pt_add(point, pt_new_xy(fe_pow(x, power), fe_pow(y, power)))

RECURSIVE trace_map_loop(_, _, _, _)
trace_map_loop(point, x, y, i) ==
    IF i >= TinyJJ_embedding_degree \/ ~Assigned(point) THEN point
    ELSE trace_map_loop(
             trace_map_body(point, x, y, i64_pow(Mod13_modulus, i)),
             x, y, i + 1)

trace_map(p) ==
    IF is_inf(p) THEN Infinity ELSE trace_map_loop(p, p[1], p[2], 1)

(***************************************************************************)
(* Pairing.  A panicking call yields Panic, a returning one Ok(value).     *)
(***************************************************************************)
Panic == [tag |-> "panic", val |-> <<>>]

Ok(v) == [tag |-> "ok", val |-> v]

\* p.xy().unwrap(), q.xy().unwrap(), t.xy().unwrap()
dist_relationship_panics(p, q, t) == is_inf(p) \/ is_inf(q) \/ is_inf(t)

\* a line through the origin: m * xt - yt
dist_line_from_origin(m, x1, y1, xt, yt) == fe_sub(fe_mul(m, xt), yt)

\* m * (xt - x1) - (yt - y1)
dist_line(m, x1, y1, xt, yt) ==
    fe_sub(fe_mul(m, fe_sub(xt, x1)), fe_sub(yt, y1))

dist_relationship(p, q, t) ==
    LET x1 == p[1]
        y1 == p[2]
        x2 == q[1]
        y2 == q[2]
        xt == t[1]
        yt == t[2]
    IN  IF ~fe_eq(x1, x2)
        THEN dist_line(chord_slope(x1, y1, x2, y2), x1, y1, xt, yt)
        ELSE IF fe_eq(y1, y2)
        THEN dist_line(tangent_slope(x1, y1), x1, y1, xt, yt)
        ELSE fe_sub(xt, x1)

is_valid_g1(p) ==
    point_eq(pt_trace_map(p), pt_mul(p, TinyJJ_embedding_degree))

is_valid_g2(q) == is_inf(pt_trace_map(q))

\* the body of the for loop of miller_loop on <<f, point>>: Panic when a
\* dist_relationship panics, else Ok(<<f, point>>)
miller_loop_add(p, q, f, point) ==
    IF dist_relationship_panics(point, p, q) THEN Panic
    ELSE Ok(<<fe_mul(f, call("dist_relationship", <<point, p, q>>)),
              pt_add(point, p)>>)

\* the loop body without its if *bit block
miller_loop_body_double(p, q, f, point, bit) ==
    IF dist_relationship_panics(point, point, q) THEN Panic
    ELSE Ok(<<fe_mul(fe_mul(f, f),
                     call("dist_relationship", <<point, point, q>>)),
              pt_double(point)>>)

miller_loop_body(p, q, f, point, bit) ==
    IF dist_relationship_panics(point, point, q) THEN Panic
    ELSE IF bit
    THEN miller_loop_add(p, q,
             fe_mul(fe_mul(f, f),
                    call("dist_relationship", <<point, point, q>>)),
             pt_double(point))
    ELSE Ok(<<fe_mul(fe_mul(f, f),
                     call("dist_relationship", <<point, point, q>>)),
              pt_double(point)>>)

\* the for loop of miller_loop from bit i on, state being Ok(<<f, point>>)
RECURSIVE miller_loop_from(_, _, _, _, _)
miller_loop_from(p, q, state, bits, i) ==
    IF state.tag = "panic" \/ i > Len(bits) THEN state
    ELSE miller_loop_from(p, q,
             miller_loop_body(p, q, state.val[1], state.val[2], bits[i]),
             bits, i + 1)

\* Panic also when assert!(point.is_inf()) fails
miller_loop_end(state) ==
    IF state.tag = "panic" THEN Panic
    ELSE IF ~is_inf(state.val[2]) THEN Panic
    ELSE Ok(state.val[1])

miller_loop(p, q) ==
    miller_loop_end(miller_loop_from(p, q, Ok(<<fe_one, p>>),
                                     skip_1(to_bits(TinyJJ_r)), 1))

final_exponentiation_exp ==
    i64_div(i64_pow(Mod13_modulus, TinyJJ_embedding_degree) - Mod13_one,
            TinyJJ_r)

\* what miller_loop returned, not raised to any power
without_final_exponentiation(f) == f

final_exponentiation(f) == fe_pow(f, final_exponentiation_exp)

\* the final exponentiation of what miller_loop returned
tate_pairing_end(f) ==
    IF f.tag = "panic" THEN Panic
    ELSE Ok(call("Pairing::final_exponentiation", <<f.val>>))

\* the two assert! of tate_pairing panic with "p is not a G1 point" and
\* "q is not a G2 point"
tate_pairing(p, q) ==
    IF ~call("Pairing::is_valid_g1", <<p>>) THEN Panic
    ELSE IF ~call("Pairing::is_valid_g2", <<q>>) THEN Panic
    ELSE tate_pairing_end(call("Pairing::miller_loop", <<p, q>>))

(***************************************************************************)
(* The functions call names.                                               *)
(***************************************************************************)
call(f, a) ==
    CASE f = "FieldElement::mul" -> FieldElement_mul(a[1], a[2], a[3])
      [] f = "FieldElement::add" -> FieldElement_add(a[1], a[2], a[3])
      [] f = "FieldElement::sub" -> FieldElement_sub(a[1], a[2], a[3])
      [] f = "FieldElement::neg" -> FieldElement_neg(a[1], a[2])
      [] f = "FieldElement::div" -> FieldElement_div(a[1], a[2], a[3])
      [] f = "FieldElement::pow" -> FieldElement_pow(a[1], a[2], a[3])
      [] f = "FieldElement::new" -> FieldElement_new(a[1], a[2])
      [] f = "FieldElement::one" -> FieldElement_one(a[1])
      [] f = "AffinePoint::new_xy" -> new_xy(a[1], a[2])
      [] f = "AffinePoint::double" -> point_double(a[1])
      [] f = "AffinePoint::neg" -> point_neg(a[1])
      [] f = "AffinePoint::add" -> point_add(a[1], a[2])
      [] f = "AffinePoint::mul" -> point_mul(a[1], a[2])
      [] f = "AffinePoint::trace_map" -> trace_map(a[1])
      [] f = "dist_relationship" -> dist_relationship(a[1], a[2], a[3])
      [] f = "Pairing::is_valid_g1" -> is_valid_g1(a[1])
      [] f = "Pairing::is_valid_g2" -> is_valid_g2(a[1])
      [] f = "Pairing::miller_loop" -> miller_loop(a[1], a[2])
      [] f = "Pairing::final_exponentiation" -> final_exponentiation(a[1])
      [] f = "Pairing::tate_pairing" -> tate_pairing(a[1], a[2])

(***************************************************************************)
(* The state machine.  A caller calls one operation of the library at a    *)
(* time; frame holds the call: the name of the operation, its operands     *)
(* and its outcome (Ok(value) or Panic).  div_mod runs one iteration of    *)
(* its loop per step, with its locals in quotient and remainder;           *)
(* tate_pairing is also called with miller_loop run one iteration per      *)
(* step, the locals of miller_loop being miller = <<f, point, bits>>,      *)
(* bits the bits its for loop has not yet taken.  held is the point the     *)
(* caller keeps from one call on AffinePoint to the next, new_inf() at     *)
(* first.                                                                  *)
(***************************************************************************)
Nothing == [tag |-> "none", val |-> <<>>]

\* the operation called, its operands, its outcome
op == frame[1]

args == frame[2]

res == frame[3]

Init ==
    /\ pc = "idle"
    /\ frame = <<"none", <<>>, Nothing>>
    /\ quotient = <<>>
    /\ remainder = <<>>
    /\ miller = <<>>
    /\ held = Infinity

\* a call that runs to its end in one step
Call(name, operands, outcome) ==
    /\ frame' = <<name, operands, outcome>>
    /\ pc' = IF outcome.tag = "panic" THEN "panicked" ELSE "returned"
    /\ UNCHANGED <<quotient, remainder, miller, held>>

\* the caller goes on after the call (or the test catching its panic)
Return ==
    /\ pc \in {"returned", "panicked"}
    /\ pc' = "idle"
    /\ frame' = <<"none", <<>>, Nothing>>
    /\ quotient' = <<>>
    /\ remainder' = <<>>
    /\ miller' = <<>>
    /\ UNCHANGED held

\* the sequences over S of the lengths lo .. hi
Lists(S, lo, hi) == UNION {[1 .. n -> S] : n \in lo .. hi}

(***************************************************************************)
(* Calls on FieldElement<M>.                                               *)
(***************************************************************************)
\* the values handed to FieldElement::new: integers for Mod13, and for an
\* extension field the polynomials Polynomial::from(vec![..]), up to the
\* degree of the modulus
RawValues(M) ==
    IF M = "Mod13" THEN -MaxRaw .. MaxRaw
    ELSE {from_vec(v) :
            v \in Lists(0 .. MaxExtCoeff, 1, degree(ext_modulus(M)) + 1)}

\* the field elements the caller holds
Elements(M) == {FieldElement_new(M, v) : v \in RawValues(M)}

\* the fields whose binary operators are called
ArithmeticFields == {"Mod13", "Mod13_2"}

New(M) ==
    /\ pc = "idle"
    /\ \E v \in RawValues(M) :
           Call("new", <<M, v>>, Ok(FieldElement_new(M, v)))

Zero(M) == pc = "idle" /\ Call("zero", <<M>>, Ok(FieldElement_zero(M)))

One(M) == pc = "idle" /\ Call("one", <<M>>, Ok(FieldElement_one(M)))

Inverse(M) ==
    /\ pc = "idle"
    /\ \E a \in Elements(M) :
           Call("inverse", <<M, a>>, Ok(FieldElement_inverse(M, a)))

Pow(M) ==
    /\ pc = "idle"
    /\ \E a \in Elements(M) : \E exp \in 0 .. MaxExp :
           Call("pow", <<M, a, exp>>, Ok(FieldElement_pow(M, a, exp)))

Neg(M) ==
    /\ pc = "idle"
    /\ \E a \in Elements(M) :
           Call("neg", <<M, a>>, Ok(FieldElement_neg(M, a)))

Add(M) ==
    /\ pc = "idle"
    /\ \E a \in Elements(M) : \E b \in Elements(M) :
           Call("add", <<M, a, b>>, Ok(FieldElement_add(M, a, b)))

Sub(M) ==
    /\ pc = "idle"
    /\ \E a \in Elements(M) : \E b \in Elements(M) :
           Call("sub", <<M, a, b>>, Ok(FieldElement_sub(M, a, b)))

Mul(M) ==
    /\ pc = "idle"
    /\ \E a \in Elements(M) : \E b \in Elements(M) :
           Call("mul", <<M, a, b>>, Ok(FieldElement_mul(M, a, b)))

Div(M) ==
    /\ pc = "idle"
    /\ \E a \in Elements(M) : \E b \in Elements(M) :
           Call("div", <<M, a, b>>, Ok(FieldElement_div(M, a, b)))

NextField ==
    \/ \E M \in Fields :
        New(M) \/ Zero(M) \/ One(M) \/ Inverse(M) \/ Pow(M) \/ Neg(M)
    \/ \E M \in ArithmeticFields :
        Add(M) \/ Sub(M) \/ Mul(M) \/ Div(M)
    \/ Return

SpecField == Init /\ [][NextField]_vars

(***************************************************************************)
(* Calls on Polynomial<C>, C the coefficient type: i64 or F13.             *)
(***************************************************************************)
\* the coefficients the caller holds: F13::new of the integers
\* 0 .. MaxCoeff and of -MaxRaw, or the integers -1 .. MaxCoeff
CoeffValues(C) ==
    IF C = "F13" THEN {F13_new(v) : v \in (0 .. MaxCoeff) \cup {-MaxRaw}}
    ELSE -1 .. MaxCoeff

\* the polynomials the caller holds: any coefficient list can be stored, by
\* collect()
Polys(C, maxlen) == {from_iter(v) : v \in Lists(CoeffValues(C), 0, maxlen)}

PolynomialNew(C) ==
    /\ pc = "idle"
    /\ \E coeffs \in Lists(CoeffValues(C), 0, MaxLen) :
           Call("Polynomial::new", <<C, coeffs>>,
                IF Polynomial_new_panics(coeffs) THEN Panic
                ELSE Ok(Polynomial_new(coeffs)))

FromCoefficients(C) ==
    /\ pc = "idle"
    /\ \E coeffs \in Lists(CoeffValues(C), 0, MaxLen) :
           Call("from_coefficients", <<C, coeffs>>,
                IF Polynomial_new_panics(coeffs) THEN Panic
                ELSE Ok(from_coefficients(coeffs)))

FromIter(C) ==
    /\ pc = "idle"
    /\ \E items \in Lists(CoeffValues(C), 0, MaxLen) :
           Call("from_iter", <<C, items>>, Ok(from_iter(items)))

\* Polynomial::<F13>::from(vec![..]) on integers
FromVec ==
    /\ pc = "idle"
    /\ \E value \in Lists((-1 .. MaxCoeff) \cup {-MaxRaw}, 0, MaxLen) :
           Call("from", <<"F13", value>>, Ok(from_vec(value)))

PolyNeg(C) ==
    /\ pc = "idle"
    /\ \E a \in Polys(C, MaxLen) :
           Call("Polynomial::neg", <<C, a>>,
                IF poly_neg_panics(a) THEN Panic ELSE Ok(poly_neg(C, a)))

PolyAdd(C) ==
    /\ pc = "idle"
    /\ \E a \in Polys(C, MaxLen) : \E b \in Polys(C, MaxDivLen) :
           Call("Polynomial::add", <<C, a, b>>,
                IF poly_add_panics(a, b) THEN Panic
                ELSE Ok(poly_add(C, a, b)))

PolySub(C) ==
    /\ pc = "idle"
    /\ \E a \in Polys(C, MaxLen) : \E b \in Polys(C, MaxDivLen) :
           Call("Polynomial::sub", <<C, a, b>>,
                IF poly_sub_panics(C, a, b) THEN Panic
                ELSE Ok(poly_sub(C, a, b)))

PolyMul(C) ==
    /\ pc = "idle"
    /\ \E a \in Polys(C, MaxLen) : \E b \in Polys(C, MaxDivLen) :
           Call("Polynomial::mul", <<C, a, b>>,
                IF poly_mul_panics(a, b) THEN Panic
                ELSE Ok(poly_mul(C, a, b)))

PolyScalarMul(C) ==
    /\ pc = "idle"
    /\ \E a \in Polys(C, MaxLen) : \E scalar \in CoeffValues(C) :
           Call("Polynomial::scalar_mul", <<C, a, scalar>>,
                IF poly_scalar_mul_panics(a) THEN Panic
                ELSE Ok(poly_scalar_mul(C, a, scalar)))

\* p / d and p % d enter div_mod: quotient = [0], remainder = self.clone()
DivModCall(C) ==
    /\ pc = "idle"
    /\ \E which \in {"Polynomial::div", "Polynomial::rem"} :
       \E self \in Polys(C, MaxLen) : \E divisor \in Polys(C, MaxDivLen) :
           /\ frame' = <<which, <<C, self, divisor>>, Nothing>>
           /\ quotient' = div_mod_init
           /\ remainder' = self
    /\ pc' = "div_mod"
    /\ UNCHANGED <<miller, held>>

\* the test of the while condition: it panics, or the loop ends and div_mod
\* returns (quotient, remainder), of which Div takes .0 and Rem .1
\* (both go to the caller of div_mod itself)
DivModExit ==
    /\ pc = "div_mod"
    /\ IF div_mod_cond_panics(remainder, args[3])
       THEN pc' = "panicked" /\ frame' = <<op, args, Panic>>
       ELSE /\ ~div_mod_cond(remainder, args[3])
            /\ pc' = "returned"
            /\ frame' = <<op, args,
                          Ok(IF op = "Polynomial::div" THEN quotient
                             ELSE IF op = "Polynomial::rem" THEN remainder
                             ELSE <<quotient, remainder>>)>>
    /\ UNCHANGED <<quotient, remainder, miller, held>>

\* one iteration of the while loop
DivModStep ==
    /\ pc = "div_mod"
    /\ ~div_mod_cond_panics(remainder, args[3])
    /\ div_mod_cond(remainder, args[3])
    /\ IF div_mod_panics(args[1], quotient, remainder, args[3])
       THEN /\ pc' = "panicked"
            /\ frame' = <<op, args, Panic>>
            /\ UNCHANGED <<quotient, remainder, miller, held>>
       ELSE LET qr == div_mod_body(args[1], quotient, remainder, args[3])
            IN  /\ quotient' = qr[1]
                /\ remainder' = qr[2]
                /\ UNCHANGED <<pc, frame, miller, held>>

NextPoly ==
    \/ \E C \in Coefficients :
        \/ PolynomialNew(C) \/ FromCoefficients(C) \/ FromIter(C)
        \/ PolyNeg(C) \/ PolyAdd(C) \/ PolySub(C) \/ PolyMul(C)
        \/ PolyScalarMul(C) \/ DivModCall(C)
    \/ FromVec
    \/ DivModExit
    \/ DivModStep
    \/ Return

SpecPoly == Init /\ [][NextPoly]_vars

(***************************************************************************)
(* Calls on Pairing for TinyJJ.                                            *)
(***************************************************************************)
\* p and q of test_pairing, test_pairing_bilinearity and main
test_pairing_p == pt_new_xy(base_element(<<8>>), base_element(<<8>>))

test_pairing_q ==
    pt_new_xy(base_element(<<7, 0, 4>>), base_element(<<0, 10, 0, 5>>))

\* what new_xy makes of the coordinates in the prime field, x up to MaxX
PrimeFieldPoints ==
    {pt_new_xy(base_element(<<x>>), base_element(<<y>>)) :
        x \in 0 .. MaxX, y \in 0 .. Mod13_modulus - 1}

\* the multiples of q
Multiples(q) == {pt_mul(q, k) : k \in 1 .. MaxMultiple}

G1Operands == PrimeFieldPoints

G2Operands == Multiples(test_pairing_q) \cup {test_pairing_p}

IsValidG1 ==
    /\ pc = "idle"
    /\ \E p \in G1Operands \cup G2Operands :
          Call("is_valid_g1", <<p>>, Ok(call("Pairing::is_valid_g1", <<p>>)))

IsValidG2 ==
    /\ pc = "idle"
    /\ \E q \in G1Operands \cup G2Operands :
          Call("is_valid_g2", <<q>>, Ok(call("Pairing::is_valid_g2", <<q>>)))

TatePairing ==
    /\ pc = "idle"
    /\ \E p \in G1Operands, q \in G2Operands :
          Call("tate_pairing", <<p, q>>,
               call("Pairing::tate_pairing", <<p, q>>))

NextPairing == IsValidG1 \/ IsValidG2 \/ TatePairing \/ Return

SpecPairing == Init /\ [][NextPairing]_vars

(***************************************************************************)
(* tate_pairing, its miller_loop one iteration per step.                   *)
(***************************************************************************)
\* the two assert! of tate_pairing, then miller_loop up to its for loop
TatePairingCall(p, q) ==
    /\ pc = "idle"
    /\ IF /\ call("Pairing::is_valid_g1", <<p>>)
          /\ call("Pairing::is_valid_g2", <<q>>)
       THEN /\ frame' = <<"Pairing::tate_pairing", <<p, q>>, Nothing>>
            /\ pc' = "miller_loop"
            /\ miller' = <<fe_one, p, skip_1(to_bits(TinyJJ_r))>>
            /\ UNCHANGED <<quotient, remainder, held>>
       ELSE Call("Pairing::tate_pairing", <<p, q>>, Panic)

\* the end of an iteration: a panic, or the locals assigned
MillerLoopAssign(state) ==
    IF state.tag = "panic"
    THEN /\ pc' = "panicked"
         /\ frame' = <<op, args, Panic>>
         /\ UNCHANGED miller
    ELSE /\ miller' = <<state.val[1], state.val[2], Tail(miller[3])>>
         /\ UNCHANGED <<pc, frame>>

\* one iteration of the for loop of miller_loop
MillerLoopStep ==
    /\ pc = "miller_loop"
    /\ miller[3] # <<>>
    /\ MillerLoopAssign(miller_loop_body(args[1], args[2], miller[1],
                                         miller[2], Head(miller[3])))
    /\ UNCHANGED <<quotient, remainder, held>>

\* the for loop is over: assert!(point.is_inf()), then tate_pairing returns
\* final_exponentiation(f)
MillerLoopExit ==
    /\ pc = "miller_loop"
    /\ miller[3] = <<>>
    /\ Call(op, args,
            tate_pairing_end(miller_loop_end(Ok(<<miller[1], miller[2]>>))))

NextMiller ==
    \/ \E p \in G1Operands : \E q \in G2Operands : TatePairingCall(p, q)
    \/ MillerLoopStep
    \/ MillerLoopExit
    \/ Return

SpecMiller == Init /\ [][NextMiller]_vars

(***************************************************************************)
(* Calls on AffinePoint<TinyJJ>.                                           *)
(***************************************************************************)
\* the scalar of test_ec_scalar_mul
test_ec_scalar_mul_scalar == 123

\* XY(x, y) written with the variant itself: no check of the coordinates
XY(x, y) == <<x, y>>

\* points built with the variant from coordinates off the curve
OffCurvePoints ==
    {XY(base_element(<<0>>), base_element(<<0>>)),
     XY(base_element(<<8>>), base_element(<<7>>))}

\* the points the caller holds
CurvePoints ==
    PrimeFieldPoints \cup Multiples(test_pairing_q) \cup {TinyJJ_generator}
        \cup OffCurvePoints

\* new_xy on the x of one point and the y of another
NewXY(p, q) ==
    /\ pc = "idle"
    /\ ~is_inf(p)
    /\ ~is_inf(q)
    /\ Call("new_xy", <<p[1], q[2]>>, Ok(pt_new_xy(p[1], q[2])))

Double(p) == pc = "idle" /\ Call("double", <<p>>, Ok(pt_double(p)))

PointNeg(p) == pc = "idle" /\ Call("AffinePoint::neg", <<p>>, Ok(pt_neg(p)))

PointAdd(p, q) ==
    pc = "idle" /\ Call("AffinePoint::add", <<p, q>>, Ok(pt_add(p, q)))

PointMul(p) ==
    /\ pc = "idle"
    /\ \E scalar \in 0 .. MaxScalar :
          Call("AffinePoint::mul", <<p, scalar>>, Ok(pt_mul(p, scalar)))

\* test_ec_generator and test_ec_scalar_mul, on either point
PointMulTest(p) ==
    /\ pc = "idle"
    /\ p \in {TinyJJ_generator, test_pairing_p}
    /\ \E scalar \in {TinyJJ_order, test_ec_scalar_mul_scalar} :
          Call("AffinePoint::mul", <<p, scalar>>, Ok(pt_mul(p, scalar)))

TraceMap(p) == pc = "idle" /\ Call("trace_map", <<p>>, Ok(pt_trace_map(p)))

NextCurve ==
    \/ \E p \in CurvePoints :
          \/ Double(p)
          \/ PointNeg(p)
          \/ PointMul(p)
          \/ PointMulTest(p)
          \/ TraceMap(p)
          \/ \E q \in CurvePoints : NewXY(p, q) \/ PointAdd(p, q)
    \/ Return

SpecCurve == Init /\ [][NextCurve]_vars

(***************************************************************************)
(* Sequences of calls on AffinePoint<TinyJJ>: the caller keeps the point a *)
(* call returns and calls the next operation on it.                        *)
(***************************************************************************)
\* the points the sequences are built from: new_inf(), the p and the q of
\* test_pairing, and the point (4, 0), whose y is zero
ClosureStart ==
    {Infinity, test_pairing_p, test_pairing_q,
     pt_new_xy(base_element(<<4>>), base_element(<<0>>))}

\* the operations on AffinePoint of the state machine
CurveOps ==
    {"new_xy", "double", "AffinePoint::neg", "AffinePoint::add",
     "AffinePoint::mul", "trace_map"}

\* the caller keeps the point the call returned
Keep ==
    /\ pc = "returned"
    /\ op \in CurveOps
    /\ pc' = "idle"
    /\ held' = res.val
    /\ frame' = <<"none", <<>>, Nothing>>
    /\ UNCHANGED <<quotient, remainder, miller>>

NextClosure ==
    \/ \E p \in ClosureStart : \E q \in ClosureStart : NewXY(p, q)
    \/ Double(held)
    \/ PointNeg(held)
    \/ PointMul(held)
    \/ TraceMap(held)
    \/ \E q \in ClosureStart : PointAdd(held, q)
    \/ Keep

SpecClosure == Init /\ [][NextClosure]_vars

(***************************************************************************)
(* Calls of dist_relationship(&p, &q, &t).                                 *)
(***************************************************************************)
\* the points of the calls: the multiples of the p and of the q of
\* test_pairing, the point (4, 0), whose y is zero, and one and two of
\* test_pairing_dist_relationship
LinePoints ==
    Multiples(test_pairing_p) \cup Multiples(test_pairing_q)
        \cup {pt_new_xy(base_element(<<4>>), base_element(<<0>>)),
              TinyJJ_generator, pt_mul(TinyJJ_generator, 2)}

\* -(p + q)
third_point(p, q) == pt_neg(pt_add(p, q))

DistRelationship(p, q) ==
    /\ pc = "idle"
    /\ \E t \in {p, q, third_point(p, q), TinyJJ_generator} :
           Call("dist_relationship", <<p, q, t>>,
                IF dist_relationship_panics(p, q, t) THEN Panic
                ELSE Ok(call("dist_relationship", <<p, q, t>>)))

NextLine ==
    \/ \E p \in LinePoints : \E q \in LinePoints : DistRelationship(p, q)
    \/ Return

SpecLine == Init /\ [][NextLine]_vars

(***************************************************************************)
(* Calls of div_mod itself, as in test_polynomial_division, the loop run   *)
(* one iteration per step.                                                 *)
(***************************************************************************)
\* the coefficients of the operands: the integers of absolute value up to
\* MaxDivCoeff, or F13::new of 0 .. MaxDivCoeff and of -MaxRaw
DivModValues(C) ==
    IF C = "F13" THEN {F13_new(v) : v \in (0 .. MaxDivCoeff) \cup {-MaxRaw}}
    ELSE -MaxDivCoeff .. MaxDivCoeff

DivMod(C) ==
    /\ pc = "idle"
    /\ \E self \in Lists(DivModValues(C), 0, MaxLen) :
       \E divisor \in Lists(DivModValues(C), 0, MaxDivLen) :
           /\ frame' = <<"Polynomial::div_mod", <<C, from_iter(self),
                                                  from_iter(divisor)>>,
                         Nothing>>
           /\ quotient' = div_mod_init
           /\ remainder' = from_iter(self)
    /\ pc' = "div_mod"
    /\ UNCHANGED <<miller, held>>

NextDivMod ==
    \/ \E C \in Coefficients : DivMod(C)
    \/ DivModExit
    \/ DivModStep
    \/ Return

SpecDivMod == Init /\ [][NextDivMod]_vars

\* div_mod runs on: an iteration of its loop, or its exit, that can be
\* taken is taken
SpecDivModFair ==
    SpecDivMod /\ WF_vars(DivModStep) /\ WF_vars(DivModExit)

(***************************************************************************)
(* FieldElement<Mod13> with the width of i64.  An integer k * 2^62 + n     *)
(* with |n| far below 2^62 is written <<k, n>>: i64 holds the integers     *)
(* from <<-2, 0>> (i64::MIN) to <<2, -1>> (i64::MAX).                      *)
(***************************************************************************)
i64_MAX == <<2, -1>>

i64_MIN == <<-2, 0>>

\* an i64 of small absolute value
as_i64(n) == <<0, n>>

\* a + b on the integers
wide_add(a, b) == <<a[1] + b[1], a[2] + b[2]>>

\* the integer is a value of i64
in_i64(x) ==
    \/ x[1] \in -1 .. 1
    \/ x[1] = 2 /\ x[2] < 0
    \/ x[1] = -2 /\ x[2] >= 0

\* the i64 a build without overflow checks keeps: the integer modulo 2^64
wrapping(x) ==
    IF in_i64(x) THEN x
    ELSE IF x[1] > 0 THEN <<x[1] - 4, x[2]>>
    ELSE <<x[1] + 4, x[2]>>

\* 2^62 modulo m, for m below 2^15
unit_rem(m) == ((((2^15) % m)^4) * 2^2) % m

\* x % m of i64 (the sign of the dividend), m positive and small
wide_rem(x, m) ==
    LET floor_rem == (x[1] * unit_rem(m) + x[2]) % m
        negative == x[1] < 0 \/ (x[1] = 0 /\ x[2] < 0)
    IN  IF negative /\ floor_rem # 0 THEN floor_rem - m ELSE floor_rem

\* the outcomes of FieldElement::<Mod13>::new(value), which is
\* (modulus + value) % modulus: when modulus + value overflows, the panic of
\* a build with overflow checks or the value of a build without them
reduce_i64(value) ==
    LET sum == wide_add(as_i64(Mod13_modulus), value)
    IN  IF in_i64(sum) THEN {Ok(wide_rem(sum, Mod13_modulus))}
        ELSE {Panic, Ok(wide_rem(wrapping(sum), Mod13_modulus))}

\* the integers an operation computes before the %
intermediates(name, operands) ==
    LET reduce(value) == wide_add(as_i64(Mod13_modulus), value)
        a == operands[1]
        b == operands[2]
    IN  CASE name = "F13::new" -> {reduce(a)}
          [] name = "F13::add" ->
                {as_i64(a + b), reduce(as_i64(a + b))}
          [] name = "F13::neg" ->
                {as_i64(Mod13_modulus - a), reduce(as_i64(Mod13_modulus - a))}
          [] name = "F13::sub" ->
                {as_i64(Mod13_modulus - b),
                 reduce(as_i64(Mod13_modulus - b)),
                 as_i64(a + F13_neg(b)), reduce(as_i64(a + F13_neg(b)))}
          [] name = "F13::mul" ->
                {as_i64(a * b), reduce(as_i64(a * b))}

\* the values handed to new: the i64 values at most MaxRaw away from zero,
\* from i64::MIN or from i64::MAX
WideValues ==
    {as_i64(n) : n \in -MaxRaw .. MaxRaw}
        \cup {wide_add(i64_MIN, as_i64(n)) : n \in 0 .. MaxRaw}
        \cup {wide_add(i64_MAX, as_i64(-n)) : n \in 0 .. MaxRaw}

\* the values new stores
Stored ==
    {outcome.val : outcome \in
        {o \in UNION {reduce_i64(v) : v \in WideValues} : o.tag = "ok"}}

WidthNew ==
    /\ pc = "idle"
    /\ \E v \in WideValues : \E outcome \in reduce_i64(v) :
           Call("F13::new", <<v>>, outcome)

WidthAdd ==
    /\ pc = "idle"
    /\ \E a \in Stored : \E b \in Stored :
       \E outcome \in reduce_i64(as_i64(a + b)) :
           Call("F13::add", <<a, b>>, outcome)

WidthNeg ==
    /\ pc = "idle"
    /\ \E a \in Stored : \E outcome \in reduce_i64(as_i64(Mod13_modulus - a)) :
           Call("F13::neg", <<a>>, outcome)

WidthSub ==
    /\ pc = "idle"
    /\ \E a \in Stored : \E b \in Stored :
       \E outcome \in reduce_i64(as_i64(a + F13_neg(b))) :
           Call("F13::sub", <<a, b>>, outcome)

WidthMul ==
    /\ pc = "idle"
    /\ \E a \in Stored : \E b \in Stored :
       \E outcome \in reduce_i64(as_i64(a * b)) :
           Call("F13::mul", <<a, b>>, outcome)

NextWidth ==
    WidthNew \/ WidthAdd \/ WidthNeg \/ WidthSub \/ WidthMul \/ Return

SpecWidth == Init /\ [][NextWidth]_vars

Next == NextField \/ NextPoly \/ NextPairing \/ NextMiller \/ NextCurve
            \/ NextClosure \/ NextLine \/ NextDivMod
            \/ NextWidth

Spec == Init /\ [][Next]_vars

(***************************************************************************)
(* The properties.                                                         *)
(***************************************************************************)
FieldOps ==
    {"new", "zero", "one", "inverse", "pow", "neg", "add", "sub", "mul",
     "div"}

DivModOps == {"Polynomial::div", "Polynomial::rem"}

PolyOps ==
    {"Polynomial::new", "from_coefficients", "from_iter", "from",
     "Polynomial::neg", "Polynomial::add", "Polynomial::sub",
     "Polynomial::mul", "Polynomial::scalar_mul"} \cup DivModOps

\* C1: bilinearity. For every p accepted by is_valid_g1 and every q accepted
\* by is_valid_g2, tate_pairing(p, q.double()) and tate_pairing(p.double(), q)
\* return, and return equal elements.
C1_Bilinearity ==
    (op = "tate_pairing" /\ is_valid_g1(args[1]) /\ is_valid_g2(args[2])) =>
        LET lhs == tate_pairing(args[1], point_double(args[2]))
            rhs == tate_pairing(point_double(args[1]), args[2])
        IN  /\ lhs.tag = "ok"
            /\ rhs.tag = "ok"
            /\ fe_eq(lhs.val, rhs.val)

\* C2: tate_pairing of p = (8, 8) and q = (7 + 4x^2, 10x + 5x^3) passes both
\* validity assertions and returns the element with coefficients
\* [3, 7, 7, 6].
C2_TestPairing ==
    (op = "tate_pairing" /\ args = <<test_pairing_p, test_pairing_q>>) =>
        /\ args[1] = << <<8>>, <<8>> >>
        /\ args[2] = << <<7, 0, 4>>, <<0, 10, 0, 5>> >>
        /\ is_valid_g1(args[1])
        /\ is_valid_g2(args[2])
        /\ res = Ok(<<3, 7, 7, 6>>)

\* the pairing of test_pairing has been called and has returned
C2_Witness ==
    /\ pc = "returned"
    /\ op = "tate_pairing"
    /\ args = <<test_pairing_p, test_pairing_q>>

\* C3: for every non-zero element a of F13, F13[x]/(x^2+2) and
\* F13[x]/(x^4+2), a * a.inverse() == one and a / a == one.
C3_InverseCorrect ==
    (op = "inverse" /\ ~FieldElement_is_zero(args[1], args[2])) =>
        /\ res.tag = "ok"
        /\ T_eq(args[1], FieldElement_mul(args[1], args[2], res.val),
                FieldElement_one(args[1]))
        /\ T_eq(args[1], FieldElement_div(args[1], args[2], args[2]),
                FieldElement_one(args[1]))

\* C4: inverse of the zero element, and division by it, end in an error:
\* they return no value.
C4_InverseOfZeroFails ==
    /\ (op = "inverse" /\ FieldElement_is_zero(args[1], args[2])) =>
           pc = "panicked"
    /\ (op = "div" /\ FieldElement_is_zero(args[1], args[3])) =>
           pc = "panicked"

\* C5: for every polynomial p and every non-zero polynomial d over F13, the
\* quotient and the remainder div_mod returns satisfy
\* p == quotient * d + remainder.
C5_DivisionIdentity ==
    (/\ pc = "returned"
     /\ op \in DivModOps
     /\ args[1] = "F13"
     /\ ~is_zero(args[3])) =>
        /\ ~poly_mul_panics(quotient, args[3])
        /\ ~poly_add_panics(poly_mul("F13", quotient, args[3]), remainder)
        /\ poly_eq(args[2],
                   poly_add("F13", poly_mul("F13", quotient, args[3]),
                            remainder))

C7_ZeroDivisorPanics ==
    (op \in DivModOps /\ Len(args[3]) > 0 /\ is_zero(args[3])) =>
        /\ pc # "returned"
        /\ (/\ pc = "div_mod"
            /\ ~div_mod_cond_panics(remainder, args[3])
            /\ div_mod_cond(remainder, args[3])
            /\ ~div_mod_panics(args[1], quotient, remainder, args[3])) =>
               div_mod_body(args[1], quotient, remainder, args[3])
                   # <<quotient, remainder>>

\* C8: the field axioms, for all elements a, b, c of F13 and of
\* F13[x]/(x^2+2): + and * are associative and commutative, * distributes
\* over +, a + zero == a, a * one == a and a + (-a) == zero.
C8_FieldAxioms ==
    /\ op = "add" =>
        LET M == args[1]
            a == args[2]
            b == args[3]
        IN  /\ T_eq(M, res.val, FieldElement_add(M, b, a))
            /\ \A c \in Elements(M) :
                   T_eq(M, FieldElement_add(M, res.val, c),
                        FieldElement_add(M, a, FieldElement_add(M, b, c)))
            /\ T_eq(M, FieldElement_add(M, a, FieldElement_zero(M)), a)
            /\ T_eq(M, FieldElement_add(M, a, FieldElement_neg(M, a)),
                    FieldElement_zero(M))
    /\ op = "mul" =>
        LET M == args[1]
            a == args[2]
            b == args[3]
        IN  /\ T_eq(M, res.val, FieldElement_mul(M, b, a))
            /\ \A c \in Elements(M) :
                /\ T_eq(M, FieldElement_mul(M, res.val, c),
                        FieldElement_mul(M, a, FieldElement_mul(M, b, c)))
                /\ T_eq(M, FieldElement_mul(M, a, FieldElement_add(M, b, c)),
                        FieldElement_add(M, res.val,
                                         FieldElement_mul(M, a, c)))
            /\ T_eq(M, FieldElement_mul(M, a, FieldElement_one(M)), a)

\* C9: every FieldElement that new, zero, one, inverse, pow or an arithmetic
\* operator returns stores a value v with v == M::reduce(v); in F13,
\* 0 <= v < 13.
C9_ReducedForm ==
    (pc = "returned" /\ op \in FieldOps) =>
        /\ T_eq(args[1], res.val, M_reduce(args[1], res.val))
        /\ args[1] = "Mod13" =>
               (Mod13_zero <= res.val /\ res.val < Mod13_modulus)

\* C10: every Polynomial that a constructor or an arithmetic operation
\* returns is stored trimmed: its last coefficient is non-zero, or it is
\* exactly [0].
C10_Trimmed ==
    (pc = "returned" /\ op \in PolyOps) =>
        /\ Len(res.val) > 0
        /\ \/ res.val[Len(res.val)] # coeff_default
           \/ res.val = <<coeff_default>>

\* p is Infinity or its coordinates satisfy the equation of the curve
OnCurve(p) == is_inf(p) \/ is_on_curve(p[1], p[2])

\* XY(x, -y) for p = XY(x, y)
Opposite(p) == IF is_inf(p) THEN Infinity ELSE XY(p[1], fe_neg(p[2]))

\* C11: for every pair (x, y) of base-field elements, new_xy(x, y) returns
\* XY(x, y) if y*y == x*x*x + a*x + b and Infinity otherwise; it never
\* fails.
C11_NewXY ==
    op = "new_xy" =>
        /\ pc = "returned"
        /\ res = Ok(IF fe_eq(fe_mul(args[2], args[2]),
                             fe_add(fe_add(fe_mul(fe_mul(args[1], args[1]),
                                                  args[1]),
                                           fe_mul(TinyJJ_a, args[1])),
                                    TinyJJ_b))
                    THEN XY(args[1], args[2])
                    ELSE Infinity)

\* new_xy has returned XY(x, y) for coordinates on the curve
C11_Witness ==
    /\ pc = "returned"
    /\ op = "new_xy"
    /\ is_on_curve(args[1], args[2])
    /\ res = Ok(XY(args[1], args[2]))

\* new_xy has returned Infinity for coordinates off the curve
C11_WitnessRejected ==
    /\ pc = "returned"
    /\ op = "new_xy"
    /\ ~is_on_curve(args[1], args[2])
    /\ res = Ok(Infinity)

C13_InverseLaw ==
    (/\ op = "AffinePoint::add"
     /\ OnCurve(args[1])
     /\ (args[2] = Opposite(args[1]) \/ args[1] = Opposite(args[2]))) =>
        res = Ok(Infinity)

\* a point with y == 0 has been added to itself, its own opposite
C13_Witness ==
    /\ pc = "returned"
    /\ op = "AffinePoint::add"
    /\ ~is_inf(args[1])
    /\ is_on_curve(args[1][1], args[1][2])
    /\ fe_is_zero(args[1][2])
    /\ args[2] = Opposite(args[1])
    /\ args[2] = args[1]

\* a point with y # 0 has been added to its opposite
C13_WitnessOpposite ==
    /\ pc = "returned"
    /\ op = "AffinePoint::add"
    /\ ~is_inf(args[1])
    /\ is_on_curve(args[1][1], args[1][2])
    /\ ~fe_is_zero(args[1][2])
    /\ args[2] = Opposite(args[1])

\* C14: on TinyJJ, generator() * order(), with order() = 28800, is the point
\* at infinity.
C14_GeneratorOrder ==
    (op = "AffinePoint::mul" /\ args = <<TinyJJ_generator, TinyJJ_order>>) =>
        /\ args[1] = XY(<<8, 2, 12, 5>>, <<0, 1, 5>>)
        /\ args[2] = 28800
        /\ res = Ok(Infinity)

\* generator() * order() has been computed
C14_Witness ==
    /\ pc = "returned"
    /\ op = "AffinePoint::mul"
    /\ args = <<TinyJJ_generator, TinyJJ_order>>

\* C15: on TinyJJ, the generator multiplied by the scalar 123 is the point
\* with coordinates (7, 2) in the degree-4 extension field.
C15_GeneratorMul123 ==
    (/\ op = "AffinePoint::mul"
     /\ args = <<TinyJJ_generator, test_ec_scalar_mul_scalar>>) =>
        res = Ok(XY(base_element(<<7>>), base_element(<<2>>)))

\* C15, amended: the point (8, 8) multiplied by 123 is the point (7, 2),
\* as test_ec_scalar_mul asserts; the generator multiplied by 123 is the
\* point (7 + 12x + 3x^2 + 4x^3, 9 + x + 7x^2 + 12x^3).
C15_ScalarMul123 ==
    /\ (/\ op = "AffinePoint::mul"
        /\ args = <<test_pairing_p, test_ec_scalar_mul_scalar>>) =>
           /\ args[1] = XY(<<8>>, <<8>>)
           /\ res = Ok(XY(<<7>>, <<2>>))
    /\ (/\ op = "AffinePoint::mul"
        /\ args = <<TinyJJ_generator, test_ec_scalar_mul_scalar>>) =>
           res = Ok(XY(<<7, 12, 3, 4>>, <<9, 1, 7, 12>>))

\* (8, 8) * 123 has been computed
C15_Witness ==
    /\ pc = "returned"
    /\ op = "AffinePoint::mul"
    /\ args = <<test_pairing_p, test_ec_scalar_mul_scalar>>

\* generator() * 123 has been computed
C15_WitnessGenerator ==
    /\ pc = "returned"
    /\ op = "AffinePoint::mul"
    /\ args = <<TinyJJ_generator, test_ec_scalar_mul_scalar>>

\* p added to Infinity n times
RECURSIVE RepeatedAdd(_, _)
RepeatedAdd(p, n) ==
    IF n = 0 THEN Infinity ELSE pt_add(RepeatedAdd(p, n - 1), p)

\* C17: for every on-curve point p and every scalar n in 0 .. MaxScalar,
\* p * n is p added to Infinity n times, so p * 0 == Infinity and
\* p * 1 == p; and Infinity * n == Infinity.
C17_ScalarMul ==
    (/\ op = "AffinePoint::mul"
     /\ OnCurve(args[1])
     /\ args[2] \in 0 .. MaxScalar) =>
        /\ pc = "returned"
        /\ point_eq(res.val, RepeatedAdd(args[1], args[2]))
        /\ args[2] = 0 => is_inf(res.val)
        /\ args[2] = 1 => point_eq(res.val, args[1])
        /\ is_inf(args[1]) => is_inf(res.val)

\* phi^i(p): new_xy of the coordinates of p raised to the power modulus^i
Frobenius(p, i) ==
    pt_new_xy(fe_pow(p[1], i64_pow(Mod13_modulus, i)),
              fe_pow(p[2], i64_pow(Mod13_modulus, i)))

\* phi^lo(p) + .. + phi^hi(p), with the addition of the curve
RECURSIVE FrobeniusSum(_, _, _)
FrobeniusSum(p, lo, hi) ==
    IF hi < lo THEN Infinity
    ELSE pt_add(FrobeniusSum(p, lo, hi - 1), Frobenius(p, hi))

\* C18: for every non-infinity point p, trace_map(p) is the sum of
\* phi^i(p) for i = 1 .. k - 1, k the embedding degree (k - 1 terms);
\* trace_map(Infinity) == Infinity.
C18_TraceMapFrom1 ==
    op = "trace_map" =>
        IF is_inf(args[1]) THEN res = Ok(Infinity)
        ELSE /\ pc = "returned"
             /\ point_eq(res.val,
                         FrobeniusSum(args[1], 1, TinyJJ_embedding_degree - 1))

\* C18, amended: for every non-infinity point p, trace_map(p) is the sum of
\* phi^i(p) for i = 0 .. k - 1 (k terms, phi^0(p) being new_xy of the
\* coordinates of p); trace_map(Infinity) == Infinity.
C18_TraceMap ==
    op = "trace_map" =>
        IF is_inf(args[1]) THEN res = Ok(Infinity)
        ELSE /\ pc = "returned"
             /\ point_eq(res.val,
                         FrobeniusSum(args[1], 0, TinyJJ_embedding_degree - 1))

\* trace_map has returned a point XY for a point XY on the curve
C18_Witness ==
    /\ pc = "returned"
    /\ op = "trace_map"
    /\ ~is_inf(args[1])
    /\ is_on_curve(args[1][1], args[1][2])
    /\ ~is_inf(res.val)

\* the product of e copies of a
RECURSIVE Product(_, _, _)
Product(M, a, e) ==
    IF e = 0 THEN FieldElement_one(M)
    ELSE FieldElement_mul(M, Product(M, a, e - 1), a)

\* C19: for every a in F13, zero included, and every exponent e in
\* 0 .. MaxExp, a.pow(e) is the product of e copies of a, with
\* a.pow(0) == one; as a consequence a.pow(13) == a.
C19_Pow ==
    (op = "pow" /\ args[1] = "Mod13") =>
        /\ pc = "returned"
        /\ T_eq(args[1], res.val, Product(args[1], args[2], args[3]))
        /\ args[3] = 0 => T_eq(args[1], res.val, FieldElement_one(args[1]))
        /\ args[3] = Mod13_modulus => T_eq(args[1], res.val, args[2])

\* C16: for every p accepted by is_valid_g1 and every q accepted by
\* is_valid_g2, miller_loop(p, q) never evaluates dist_relationship on a
\* point at infinity and ends with point == Infinity, so that
\* assert!(point.is_inf()) holds and tate_pairing returns a value.
C16_MillerLoopPostcondition ==
    (op = "Pairing::tate_pairing" /\ miller # <<>>) =>
        /\ pc # "panicked"
        /\ (pc = "miller_loop" /\ miller[3] # <<>>) =>
               ~dist_relationship_panics(miller[2], miller[2], args[2])
        /\ (pc = "miller_loop" /\ miller[3] = <<>>) => is_inf(miller[2])
        /\ pc = "returned" => res.tag = "ok"

\* the integer whose binary digits are bits, the most significant first
RECURSIVE FromBits(_)
FromBits(bits) ==
    IF bits = <<>> THEN 0
    ELSE 2 * FromBits(SubSeq(bits, 1, Len(bits) - 1))
             + (IF bits[Len(bits)] THEN 1 ELSE 0)

\* the bits of r the for loop has taken, the leading bit included
ConsumedBits ==
    SubSeq(to_bits(TinyJJ_r), 1, Len(to_bits(TinyJJ_r)) - Len(miller[3]))

\* C20: at the end of every iteration of miller_loop(p, q), point == p * m
\* with m the integer whose binary digits are the bits of r taken so far,
\* the leading bit included; after the last bit point == p * r.
C20_MillerLoopInvariant ==
    pc = "miller_loop" =>
        /\ point_eq(miller[2], pt_mul(args[1], FromBits(ConsumedBits)))
        /\ miller[3] = <<>> =>
               point_eq(miller[2], pt_mul(args[1], TinyJJ_r))

\* the for loop is over, for a point p other than Infinity
C20_Witness ==
    /\ pc = "miller_loop"
    /\ miller[3] = <<>>
    /\ ~is_inf(args[1])
    /\ FromBits(ConsumedBits) = TinyJJ_r

\* C21: starting from points built by new_xy or new_inf, every point
\* reached by a sequence of add, double, neg, scalar multiplication and
\* trace_map is Infinity or an XY(x, y) with y*y == x*x*x + a*x + b.
C21_OnCurveClosure ==
    /\ OnCurve(held)
    /\ (pc = "returned" /\ op \in CurveOps) => OnCurve(res.val)

\* an addition to a kept point that is none of the starting points has
\* returned a point XY
C21_Witness ==
    /\ pc = "returned"
    /\ op = "AffinePoint::add"
    /\ args[1] = held
    /\ held \notin ClosureStart
    /\ ~is_inf(res.val)

\* C22: for non-infinity on-curve points p and q (chord, tangent or
\* vertical case), dist_relationship(p, q, p) == zero and
\* dist_relationship(p, q, q) == zero, and when p + q is not Infinity,
\* dist_relationship(p, q, -(p + q)) == zero.
C22_LineVanishes ==
    (/\ pc = "returned"
     /\ op = "dist_relationship"
     /\ ~is_inf(args[1]) /\ OnCurve(args[1])
     /\ ~is_inf(args[2]) /\ OnCurve(args[2])
     /\ \/ point_eq(args[3], args[1])
        \/ point_eq(args[3], args[2])
        \/ /\ ~is_inf(pt_add(args[1], args[2]))
           /\ point_eq(args[3], third_point(args[1], args[2])))
    => fe_eq(res.val, FieldElement_zero(BaseField))

\* the chord case at the third point of the line: p and q with different
\* x, and t == -(p + q) neither p nor q
C22_Witness ==
    /\ pc = "returned"
    /\ op = "dist_relationship"
    /\ ~fe_eq(args[1][1], args[2][1])
    /\ point_eq(args[3], third_point(args[1], args[2]))
    /\ ~point_eq(args[3], args[1])
    /\ ~point_eq(args[3], args[2])
    /\ fe_eq(res.val, FieldElement_zero(BaseField))

\* the tangent case at the third point: p == q, and t == -(p + p)
C22_WitnessTangent ==
    /\ pc = "returned"
    /\ op = "dist_relationship"
    /\ point_eq(args[1], args[2])
    /\ point_eq(args[3], third_point(args[1], args[2]))
    /\ ~point_eq(args[3], args[1])
    /\ fe_eq(res.val, FieldElement_zero(BaseField))

\* the vertical case: q == -p with y not zero, and t == q
C22_WitnessVertical ==
    /\ pc = "returned"
    /\ op = "dist_relationship"
    /\ ~point_eq(args[1], args[2])
    /\ point_eq(args[2], pt_neg(args[1]))
    /\ point_eq(args[3], args[2])
    /\ fe_eq(res.val, FieldElement_zero(BaseField))

\* C23: div_mod(p, d) terminates for every polynomial p and every non-zero
\* divisor d, with integer coefficients as well as with field-element
\* coefficients: a call that has entered the loop leaves it.
C23_DivModTerminates ==
    (pc = "div_mod" /\ ~is_zero(args[3])) ~> (pc # "div_mod")

\* the operations of FieldElement<Mod13> with the width of i64
WidthOps == {"F13::new", "F13::add", "F13::neg", "F13::sub", "F13::mul"}

\* C24: FieldElement::<Mod13>::new(v) for every i64 value v, and +, -, *
\* and negation on stored elements, compute no integer outside the range of
\* i64.
C24_NoOverflow ==
    (pc \in {"returned", "panicked"} /\ op \in WidthOps)
        => \A x \in intermediates(op, args) : in_i64(x)

====
